---- MODULE Spec2Model ----
(***************************************************************************)
(* Start-height resolution of the NEAR Indexer for Explorer (Lake):        *)
(* indexer/src/configs.rs, Opts::to_lake_config, get_start_block_height    *)
(* and final_block_height.  One process start is one run of                *)
(* to_lake_config; the await points of the two queries are the step        *)
(* boundaries of the model.                                                *)
(***************************************************************************)
EXTENDS Integers, Sequences, FiniteSets

\* Block heights are drawn from 0..MaxHeight.
MaxHeight == 2
\* Number of process starts (runs of to_lake_config) explored.
MaxRuns == 2

Heights == 0..MaxHeight

\* enum ChainId { Mainnet(StartOptions), Testnet(StartOptions) }
ChainId == {"Mainnet", "Testnet"}

\* enum StartOptions { FromBlock { height }, FromInterruption, FromLatest }
\* (height is 0 for the variants that carry none)
StartOptions ==
    [kind : {"FromBlock"}, height : Heights]
        \cup [kind : {"FromInterruption", "FromLatest"}, height : {0}]

\* Result<Option<u64>, _> of adapters::blocks::latest_block_height:
\* Ok(Some(h)) is Found h, Ok(None) is NotFound, Err(_) is Unavailable.
PersistedResults ==
    [kind : {"Found"}, height : Heights]
        \cup [kind : {"NotFound", "Unavailable"}, height : {0}]

\* Result of client.call(RpcBlockRequest { Finality::Final }):
\* Ok(block) with block.header.height, or Err(_).
FinalizedResults ==
    [kind : {"Finalized"}, height : Heights]
        \cup [kind : {"NetworkError"}, height : {0}]

\* Option<T>: None is the empty sequence, Some(x) is <<x>>.
None == << >>
Some(x) == << x >>

VARIABLES
    chain_id,       \* Opts.chain_id, the variant
    start_options,  \* Opts.start_options()
    persisted,      \* what the database answers to latest_block_height
    finalized,      \* what the RPC node answers to the final block request
    pc,             \* position of the run
    log,            \* queries issued, results received, warnings recorded
    start_block_height, \* the value get_start_block_height returned
    config,         \* the LakeConfig to_lake_config returned
    resolutions,    \* calls of get_start_block_height in this run
    run,            \* number of the current process start
    prev            \* inputs, outcome and log of the previous run

vars == << chain_id, start_options, persisted, finalized, pc, log,
           start_block_height, config, resolutions, run, prev >>

opts == << chain_id, start_options >>
sources == << persisted, finalized >>

Init ==
    /\ chain_id \in ChainId
    /\ start_options \in StartOptions
    /\ persisted \in PersistedResults
    /\ finalized \in FinalizedResults
    /\ pc = "start"
    /\ log = << >>
    /\ start_block_height = None
    /\ config = None
    /\ resolutions = 0
    /\ run = 1
    /\ prev = None

\* to_lake_config up to the call of get_start_block_height
ToLakeConfig ==
    /\ pc = "start"
    /\ pc' = "resolve"
    /\ resolutions' = resolutions + 1
    /\ UNCHANGED << opts, sources, log, start_block_height, config, run, prev >>

\* Variant of ResolveFromBlock: the explicit height is ignored and the run
\* goes on to ask the network for the final block.
ResolveFromBlock_AsksNetwork ==
    /\ pc = "resolve"
    /\ start_options.kind = "FromBlock"
    /\ pc' = "final"
    /\ UNCHANGED << opts, sources, log, start_block_height, config,
                    resolutions, run, prev >>

\* StartOptions::FromBlock { height } => *height
ResolveFromBlock ==
    /\ pc = "resolve"
    /\ start_options.kind = "FromBlock"
    /\ start_block_height' = Some(start_options.height)
    /\ pc' = "resolved"
    /\ UNCHANGED << opts, sources, log, config, resolutions, run, prev >>

\* Variant of ResolveFromInterruption: the height a previous run resolved is
\* kept and reused without asking the database again.
ResolveFromInterruption_Cached ==
    /\ pc = "resolve"
    /\ start_options.kind = "FromInterruption"
    /\ IF prev # None /\ prev[1].outcome.height # None
         THEN /\ start_block_height' = prev[1].outcome.height
              /\ pc' = "resolved"
              /\ UNCHANGED log
         ELSE /\ log' = Append(log, "persisted_query")
              /\ pc' = "await_db"
              /\ UNCHANGED start_block_height
    /\ UNCHANGED << opts, sources, config, resolutions, run, prev >>

\* StartOptions::FromInterruption => establish_connection, then
\* latest_block_height(&pool) is called and awaited
ResolveFromInterruption ==
    /\ pc = "resolve"
    /\ start_options.kind = "FromInterruption"
    /\ log' = Append(log, "persisted_query")
    /\ pc' = "await_db"
    /\ UNCHANGED << opts, sources, start_block_height, config, resolutions,
                    run, prev >>

\* Variant of ResolveFromLatest: the database is asked first, as in
\* FromInterruption.
ResolveFromLatest_AsksDatabase ==
    /\ pc = "resolve"
    /\ start_options.kind = "FromLatest"
    /\ log' = Append(log, "persisted_query")
    /\ pc' = "await_db"
    /\ UNCHANGED << opts, sources, start_block_height, config, resolutions,
                    run, prev >>

\* StartOptions::FromLatest => final_block_height(opts)
ResolveFromLatest ==
    /\ pc = "resolve"
    /\ start_options.kind = "FromLatest"
    /\ pc' = "final"
    /\ UNCHANGED << opts, sources, log, start_block_height, config,
                    resolutions, run, prev >>

\* Variants of LatestBlockHeightReturns.  after_found is what a Found height
\* becomes, found_falls_back sends Found to the final block as well,
\* warn_not_found logs the warning for NotFound too, err_fatal lets the
\* database error end the run.
LatestBlockHeightReturns_Variant(after_found, found_falls_back,
                                 warn_not_found, err_fatal) ==
    /\ pc = "await_db"
    /\ CASE persisted.kind = "Found" ->
                /\ log' = Append(log, "persisted_result")
                /\ IF found_falls_back
                     THEN /\ pc' = "final"
                          /\ UNCHANGED start_block_height
                     ELSE /\ start_block_height' =
                                 Some(persisted.height + after_found)
                          /\ pc' = "resolved"
         [] persisted.kind = "NotFound" ->
                /\ log' = IF warn_not_found
                            THEN log \o << "persisted_result", "warn" >>
                            ELSE Append(log, "persisted_result")
                /\ pc' = "final"
                /\ UNCHANGED start_block_height
         [] persisted.kind = "Unavailable" ->
                /\ log' = log \o << "persisted_result", "warn" >>
                /\ pc' = IF err_fatal THEN "panicked" ELSE "final"
                /\ UNCHANGED start_block_height
    /\ UNCHANGED << opts, sources, config, resolutions, run, prev >>

LatestBlockHeightReturns_FoundFallsBack ==
    LatestBlockHeightReturns_Variant(0, TRUE, FALSE, FALSE)

LatestBlockHeightReturns_ErrFatal ==
    LatestBlockHeightReturns_Variant(0, FALSE, FALSE, TRUE)

LatestBlockHeightReturns_WarnsNotFound ==
    LatestBlockHeightReturns_Variant(0, FALSE, TRUE, FALSE)

LatestBlockHeightReturns_NextHeight ==
    LatestBlockHeightReturns_Variant(1, FALSE, FALSE, FALSE)

\* the match on the result of latest_block_height
LatestBlockHeightReturns ==
    /\ pc = "await_db"
    /\ CASE persisted.kind = "Found" ->
                /\ log' = Append(log, "persisted_result")
                /\ start_block_height' = Some(persisted.height)
                /\ pc' = "resolved"
         [] persisted.kind = "NotFound" ->
                /\ log' = Append(log, "persisted_result")
                /\ pc' = "final"
                /\ UNCHANGED start_block_height
         [] persisted.kind = "Unavailable" ->
                /\ log' = log \o << "persisted_result", "warn" >>
                /\ pc' = "final"
                /\ UNCHANGED start_block_height
    /\ UNCHANGED << opts, sources, config, resolutions, run, prev >>

\* final_block_height: connect, build the request, client.call(request)
FinalBlockHeightCall ==
    /\ pc = "final"
    /\ log' = Append(log, "finalized_query")
    /\ pc' = "await_rpc"
    /\ UNCHANGED << opts, sources, start_block_height, config, resolutions,
                    run, prev >>

\* Variants of FinalBlockHeightReturns: on_error is where a failed request
\* leads, "default" standing for unwrap_or_default and "final" for one more
\* attempt.
FinalBlockHeightReturns_Variant(on_error) ==
    /\ pc = "await_rpc"
    /\ log' = Append(log, "finalized_result")
    /\ CASE finalized.kind = "Finalized" ->
                /\ start_block_height' = Some(finalized.height)
                /\ pc' = "resolved"
         [] finalized.kind # "Finalized" /\ on_error = "default" ->
                /\ start_block_height' = Some(0)
                /\ pc' = "resolved"
         [] finalized.kind # "Finalized" /\ on_error = "final" ->
                /\ pc' = IF Len(SelectSeq(log, LAMBDA e : e = "finalized_query")) < 2
                           THEN "final" ELSE "panicked"
                /\ UNCHANGED start_block_height
    /\ UNCHANGED << opts, sources, config, resolutions, run, prev >>

FinalBlockHeightReturns_Default == FinalBlockHeightReturns_Variant("default")

FinalBlockHeightReturns_Retry == FinalBlockHeightReturns_Variant("final")

\* .await.unwrap(); latest_block.header.height
FinalBlockHeightReturns ==
    /\ pc = "await_rpc"
    /\ log' = Append(log, "finalized_result")
    /\ IF finalized.kind = "Finalized"
         THEN /\ start_block_height' = Some(finalized.height)
              /\ pc' = "resolved"
         ELSE /\ pc' = "panicked"
              /\ UNCHANGED start_block_height
    /\ UNCHANGED << opts, sources, config, resolutions, run, prev >>

\* Variant of BuildLakeConfig: the Testnet arm configures mainnet.
BuildLakeConfig_AlwaysMainnet ==
    /\ pc = "resolved"
    /\ config' = Some([network |-> "Mainnet",
                       start_block_height |-> start_block_height[1]])
    /\ pc' = "done"
    /\ UNCHANGED << opts, sources, log, start_block_height, resolutions,
                    run, prev >>

\* the rest of to_lake_config: network, start_block_height, build()
BuildLakeConfig ==
    /\ pc = "resolved"
    /\ config' = Some([network |-> chain_id,
                       start_block_height |-> start_block_height[1]])
    /\ pc' = "done"
    /\ UNCHANGED << opts, sources, log, start_block_height, resolutions,
                    run, prev >>

Terminated == pc \in {"done", "panicked"}

Outcome == [fatal |-> pc = "panicked", height |-> start_block_height]

\* The process is started again: Opts are parsed anew and the two sources
\* are in whatever state they are then.
Restart ==
    /\ Terminated
    /\ run < MaxRuns
    /\ prev' = Some([start_options |-> start_options,
                     persisted |-> persisted,
                     finalized |-> finalized,
                     outcome |-> Outcome,
                     log |-> log])
    /\ run' = run + 1
    /\ chain_id' \in ChainId
    /\ start_options' \in StartOptions
    /\ persisted' \in PersistedResults
    /\ finalized' \in FinalizedResults
    /\ pc' = "start"
    /\ log' = << >>
    /\ start_block_height' = None
    /\ config' = None
    /\ resolutions' = 0

Next ==
    \/ ToLakeConfig
    \/ ResolveFromBlock
    \/ ResolveFromInterruption
    \/ ResolveFromLatest
    \/ LatestBlockHeightReturns
    \/ FinalBlockHeightCall
    \/ FinalBlockHeightReturns
    \/ BuildLakeConfig
    \/ Restart

Spec == Init /\ [][Next]_vars

TypeOK ==
    /\ chain_id \in ChainId
    /\ start_options \in StartOptions
    /\ persisted \in PersistedResults
    /\ finalized \in FinalizedResults
    /\ pc \in {"start", "resolve", "await_db", "final", "await_rpc",
               "resolved", "done", "panicked"}
    /\ start_block_height \in {None} \cup {Some(h) : h \in Heights}
    /\ resolutions \in 0..1
    /\ run \in 1..MaxRuns

(***************************************************************************)
(* Helpers for the properties                                              *)
(***************************************************************************)
Count(ev) == Cardinality({i \in DOMAIN log : log[i] = ev})

\* position of the first ev in the log, 0 when there is none
Index(ev) ==
    IF \E i \in DOMAIN log : log[i] = ev
      THEN CHOOSE i \in DOMAIN log :
               /\ log[i] = ev
               /\ \A j \in DOMAIN log : log[j] = ev => i <= j
      ELSE 0

IsQuery(ev) == ev \in {"persisted_query", "finalized_query"}

\* the source queries of the run, in the order they were issued
Queries == SelectSeq(log, IsQuery)

\* get_start_block_height has returned a height
Returned == pc \in {"resolved", "done"}

\* the persisted result makes FromInterruption fall back to the final block
FallsBack == persisted.kind \in {"NotFound", "Unavailable"}

(***************************************************************************)
(* C1                                                                      *)
(***************************************************************************)
\* C1: with FromBlock { height: h } the resolution returns exactly h and
\* calls neither latest_block_height nor the RPC block query, whatever the
\* two sources would answer; it never fails.
C1_ExplicitHeightNoIO ==
    start_options.kind = "FromBlock" =>
        /\ log = << >>
        /\ pc # "panicked"
        /\ Returned => start_block_height = Some(start_options.height)

C1_Witness ==
    /\ start_options.kind = "FromBlock"
    /\ start_options.height = MaxHeight
    /\ persisted.kind = "Unavailable"
    /\ finalized.kind = "NetworkError"
    /\ pc = "resolved"
    /\ start_block_height = Some(MaxHeight)

(***************************************************************************)
(* C2                                                                      *)
(***************************************************************************)
\* C2: with FromInterruption and a persisted result Found(h) the resolution
\* returns exactly h, the finalized source is not queried and the run does
\* not fail, whatever the finalized source would answer.
C2_FoundReturnsPersisted ==
    (start_options.kind = "FromInterruption" /\ persisted.kind = "Found") =>
        /\ Count("finalized_query") = 0
        /\ pc # "panicked"
        /\ Returned => start_block_height = Some(persisted.height)

C2_Witness ==
    /\ start_options.kind = "FromInterruption"
    /\ persisted.kind = "Found"
    /\ persisted.height = 1
    /\ finalized.kind = "NetworkError"
    /\ pc = "resolved"
    /\ start_block_height = Some(1)
    /\ log = << "persisted_query", "persisted_result" >>

(***************************************************************************)
(* C3                                                                      *)
(***************************************************************************)
\* C3: with FromInterruption, a persisted result NotFound or Unavailable and
\* a finalized result f, the resolution returns exactly f after one
\* persisted query followed by one finalized query, the same for NotFound
\* and for Unavailable; the run does not fail.
C3_FallbackReturnsFinalized ==
    (/\ start_options.kind = "FromInterruption"
     /\ FallsBack
     /\ finalized.kind = "Finalized") =>
        /\ pc # "panicked"
        /\ Returned =>
              /\ start_block_height = Some(finalized.height)
              /\ Queries = << "persisted_query", "finalized_query" >>

C3_Witness ==
    /\ start_options.kind = "FromInterruption"
    /\ persisted.kind = "Unavailable"
    /\ finalized.kind = "Finalized"
    /\ finalized.height = MaxHeight
    /\ pc = "done"
    /\ start_block_height = Some(MaxHeight)
    /\ Queries = << "persisted_query", "finalized_query" >>

(***************************************************************************)
(* C4                                                                      *)
(***************************************************************************)
\* C4: with FromLatest and a finalized result f the resolution returns
\* exactly f, and the persisted source is never queried in that run,
\* whatever it would answer.
C4_FromLatestSkipsPersistence ==
    start_options.kind = "FromLatest" =>
        /\ Count("persisted_query") = 0
        /\ Count("persisted_result") = 0
        /\ (finalized.kind = "Finalized" /\ Returned) =>
               start_block_height = Some(finalized.height)

C4_Witness ==
    /\ start_options.kind = "FromLatest"
    /\ persisted.kind = "Found"
    /\ persisted.height = 0
    /\ finalized.kind = "Finalized"
    /\ finalized.height = 1
    /\ pc = "resolved"
    /\ start_block_height = Some(1)
    /\ log = << "finalized_query", "finalized_result" >>

(***************************************************************************)
(* C5                                                                      *)
(***************************************************************************)
\* the finalized query is on the path of this run
FinalizedNeeded ==
    \/ start_options.kind = "FromLatest"
    \/ start_options.kind = "FromInterruption" /\ FallsBack

\* C5: a run ends in the fatal failure exactly when the finalized query was
\* issued (FromLatest, or FromInterruption after NotFound or Unavailable)
\* and failed; then no height is returned; a failure of the persisted
\* source alone never makes the run fail.
C5_FatalIffFinalizedFails ==
    /\ Terminated =>
          /\ Count("finalized_query") = 1 <=> FinalizedNeeded
          /\ pc = "panicked" <=>
                (Count("finalized_query") = 1 /\ finalized.kind = "NetworkError")
    /\ pc = "panicked" =>
          /\ start_block_height = None
          /\ config = None
    /\ (persisted.kind = "Unavailable" /\ finalized.kind = "Finalized") =>
          pc # "panicked"

C5_Witness ==
    /\ start_options.kind = "FromInterruption"
    /\ persisted.kind = "Unavailable"
    /\ finalized.kind = "NetworkError"
    /\ pc = "panicked"
    /\ start_block_height = None
    /\ Count("finalized_query") = 1

(***************************************************************************)
(* C6                                                                      *)
(***************************************************************************)
\* latest_block_height has returned in this run
PersistedAnswered == Count("persisted_result") = 1

\* C6: a warning is recorded exactly once when the mode is FromInterruption
\* and the persisted query returns Unavailable, and it is recorded before
\* the finalized query is issued; in every other case no warning is
\* recorded.
C6_WarningOnlyOnUnavailable ==
    /\ Count("warn") =
          IF /\ start_options.kind = "FromInterruption"
             /\ persisted.kind = "Unavailable"
             /\ PersistedAnswered
            THEN 1 ELSE 0
    /\ (Count("warn") = 1 /\ Count("finalized_query") = 1) =>
          Index("warn") < Index("finalized_query")
    /\ (/\ start_options.kind = "FromInterruption"
        /\ persisted.kind = "Unavailable"
        /\ Count("finalized_query") = 1) => Count("warn") = 1

C6_Witness ==
    /\ start_options.kind = "FromInterruption"
    /\ persisted.kind = "Unavailable"
    /\ finalized.kind = "Finalized"
    /\ pc = "done"
    /\ log = << "persisted_query", "persisted_result", "warn",
                "finalized_query", "finalized_result" >>

(***************************************************************************)
(* C7                                                                      *)
(***************************************************************************)
\* the persisted height reached the stream configuration
ResumedFromPersisted ==
    /\ start_options.kind = "FromInterruption"
    /\ persisted.kind = "Found"
    /\ pc = "done"

\* C7 as stated: the start height handed to the stream configuration is
\* the height following the last recorded one, h + 1.
C7_ResumesAfterLast ==
    ResumedFromPersisted =>
        config = Some([network |-> chain_id,
                       start_block_height |-> persisted.height + 1])

\* C7 amended: with FromInterruption and h the highest recorded height, the
\* start height handed to the stream configuration is h itself, so the last
\* recorded block is streamed again.
C7_ResumesAtLast ==
    ResumedFromPersisted =>
        config = Some([network |-> chain_id,
                       start_block_height |-> persisted.height])

C7_Witness ==
    /\ ResumedFromPersisted
    /\ persisted.height = MaxHeight
    /\ config # None
    /\ config[1].start_block_height = MaxHeight

(***************************************************************************)
(* C8                                                                      *)
(***************************************************************************)
\* this run had the start mode and the source states of the previous one
SameInputsAsPrev ==
    /\ prev # None
    /\ prev[1].start_options = start_options
    /\ prev[1].persisted = persisted
    /\ prev[1].finalized = finalized

C9_AtMostOnceInOrder ==
    /\ Count("persisted_query") <= 1
    /\ Count("finalized_query") <= 1
    /\ Count("persisted_result") <= Count("persisted_query")
    /\ Count("finalized_result") <= Count("finalized_query")
    /\ (start_options.kind = "FromInterruption"
            /\ Count("finalized_query") = 1) =>
          /\ FallsBack
          /\ 0 < Index("persisted_query")
          /\ Index("persisted_query") < Index("persisted_result")
          /\ Index("persisted_result") < Index("finalized_query")

C9_Witness ==
    /\ start_options.kind = "FromInterruption"
    /\ persisted.kind = "NotFound"
    /\ pc = "await_rpc"
    /\ log = << "persisted_query", "persisted_result", "finalized_query" >>

(***************************************************************************)
(* C10                                                                     *)
(***************************************************************************)
\* C10: to_lake_config resolves the start height exactly once and passes
\* it unchanged as the configuration's start block height, with the network
\* of the selected chain id, for Mainnet and Testnet; after the fatal
\* failure there is no configuration.
C10_ConfigCarriesResolvedHeight ==
    /\ resolutions = (IF pc = "start" THEN 0 ELSE 1)
    /\ config # None <=> pc = "done"
    /\ pc = "done" =>
          /\ start_block_height # None
          /\ config = Some([network |-> chain_id,
                            start_block_height |-> start_block_height[1]])

C10_Witness ==
    /\ chain_id = "Testnet"
    /\ start_options.kind = "FromLatest"
    /\ finalized.kind = "Finalized"
    /\ finalized.height = MaxHeight
    /\ pc = "done"
    /\ resolutions = 1
    /\ config = Some([network |-> "Testnet", start_block_height |-> MaxHeight])
====
